---- MODULE Spec2Model ----
(***************************************************************************)
(* Shopping-list microservices: the API gateway's circuit-breaker-gated    *)
(* proxy (api-gateway/server.js) over the shared service registry.         *)
(*                                                                         *)
(* Node.js runs every handler to its next await without interruption, so   *)
(* each synchronous segment of proxyRequest is one atomic action:          *)
(*   ProxyRequest  - lines 44-61: breaker check, discovery, outbound call  *)
(*   ProxyResponse - lines 62-70: the awaited call settles                 *)
(* The proxyRequest calls suspended at their await form a bag: two calls   *)
(* to the same target differ in nothing the code can see.                  *)
(* Time is Date.now() in milliseconds; it only moves forward (Tick).       *)
(***************************************************************************)
EXTENDS Integers, FiniteSets, Sequences, Bags, TLC

(* ------------------------------ bounds --------------------------------- *)
\* number of requests that can be in flight at the gateway at once
NumReqs == 2
\* the clock visits the window boundaries k * OpenDuration, k in 0..MaxWindows,
\* and the instant MaxSkew ms after each boundary but the first
MaxWindows == 1
MaxSkew == 1
\* cap on a breaker's failure counter (the code's counter is unbounded)
MaxFailures == 4
\* how many lists are created
MaxLists == 1
\* how many list-service handlers reach an await with a write ahead of them
MaxHandlers == 2
\* how many users are stored
MaxUsers == 3

(* ------------------------- program constants --------------------------- *)
\* server.js:144  if (breaker.failures >= 3)
FailureThreshold == 3
\* server.js:128  (Date.now() - breaker.lastFailure) > 30000
OpenDuration == 30000
\* server.js:47, 67  status of the gateway's own "unavailable" answers
ServiceUnavailable == 503

\* targets the gateway proxies to (server.js:36-37)
Services == {"item-service", "list-service"}
\* a proxyRequest suspended at its await: the target it called, and whether
\* its isCircuitOpen took the half-open branch (the line 130 log)
Calls == [target : Services, trial : BOOLEAN]
\* instants the clock can show
Times == {k * OpenDuration : k \in 0..MaxWindows}
            \cup {k * OpenDuration + MaxSkew : k \in 1..MaxWindows}
\* how an awaited axios call settles: 2xx, non-2xx response, no response
Outcomes == {"ok", "http_error", "transport_error"}
SuccessStatuses == {200, 201}
ErrorStatuses == {401, 500}

\* the Authorization header of a request to an aggregate endpoint
Headers == {"none", "Bearer a", "Bearer b"}
\* the q parameter of /api/search
Queries == {"", "milk"}
\* what a downstream puts in the data field of its 2xx body
Data == {"d1", "d2"}

\* the Authorization header of a request to a protected endpoint
AuthHeaders == {"none", "Basic x", "Bearer a"}
\* how the POST /auth/validate of an authMiddleware settles: 2xx with
\* success true, 2xx with success false, non-2xx response, no response
ValidateOutcomes == {"valid", "invalid", "http_error", "transport_error"}
\* the users the validated tokens stand for (req.user.id)
UserIds == {"u1", "u2"}
\* the ids uuidv4 hands out to lists, in order
ListIds == 1..MaxLists
\* the itemId of a request: absent, or an id of the catalogue
ItemIds == {"i1", "i2"}
\* the name in the body of a list request: absent, or a name
Names == {"", "n1"}
\* the email in the body of a register request: absent, or an address
Emails == {"", "a@x", "b@x"}
\* the username in the body of a register request
Usernames == {"ann", "bob"}
\* how the GET /items/:id of addItemToList settles: 2xx with the item, 2xx
\* without data, anything else
ItemOutcomes == {"found", "missing", "error"}

\* what user-service finds in the token of a POST /auth/validate: a token it
\* signed for a stored user, a token jwt.verify rejects, a token it signed
\* for a user it no longer finds
TokenVerdicts == {"good", "forged", "orphan"}

VARIABLES
    now,              \* Date.now()
    registry,         \* serviceRegistry: registered name -> service record
    circuitBreakers,  \* this.circuitBreakers: Map name -> breaker record
    inFlight,         \* bag of the proxyRequest calls awaiting axios
    response,         \* the response proxyRequest sent last (res.status().json())
    aggregate,        \* the getDashboard / globalSearch call suspended at its await
    aggResponse,      \* the response an aggregate endpoint sent last
    validating,       \* per service: its authMiddleware awaits /auth/validate
    authFailures,     \* history, per service: validations in a row that failed
                      \* for want of an answer from user-service (the code
                      \* keeps no such count)
    authResponse,     \* what an authMiddleware did last: a status, or next()
    lists,            \* listsDb of list-service: list id -> stored list
    created,          \* how many list ids uuidv4 has handed out
    handlers,         \* bag of the list-service handlers suspended at an await
    suspended,        \* history: how many handlers have been suspended so far
    listResponse,     \* the response list-service sent last
    ackedItems,       \* history, per list id: the itemIds whose addition was
                      \* acknowledged and whose removal was not acknowledged since
    users,            \* usersDb of user-service: the stored users, in order
    registering,      \* bag of the register handlers suspended at an await
    userResponse      \* the response user-service sent last

\* what the aggregate endpoints write
aggVars == <<aggregate, aggResponse>>

\* what the authMiddleware of list-service and item-service writes
authVars == <<validating, authFailures, authResponse>>

\* what the handlers of list-service write
listVars == <<lists, created, handlers, suspended, listResponse, ackedItems>>

\* what the handlers of user-service write
userVars == <<users, registering, userResponse>>

\* the documents of the two services
dbVars == <<listVars, userVars>>

vars == <<now, registry, circuitBreakers, inFlight, response, aggVars, authVars,
          dbVars>>

(* --------------------------- service registry -------------------------- *)
ServiceUrl(name) ==
    IF name = "item-service" THEN 3003
    ELSE IF name = "list-service" THEN 3002
    ELSE 3001

\* variant: a registered name keeps the url it first registered with
RegistryRegisterOnce(reg, name, url) ==
    [n \in DOMAIN reg \cup {name} |->
        IF n = name
        THEN [url    |-> IF n \in DOMAIN reg THEN reg[n].url ELSE url,
              status |-> "unknown"]
        ELSE reg[n]]

\* serviceRegistry.register(name, {url}): upsert of the record
RegistryRegister(reg, name, url) ==
    [n \in DOMAIN reg \cup {name} |->
        IF n = name THEN [url |-> url, status |-> "unknown"] ELSE reg[n]]

\* serviceRegistry.discover(name) throws when the name is not registered
DiscoverThrows(reg, name) == name \notin DOMAIN reg

\* names and addresses the registry is called with
RegistryNames == Services \cup {"user-service"}
Urls == {3001, 3002, 3003}
\* what discover gives for a name that is not registered: it throws
NotRegistered == [url |-> 0, status |-> "NotRegistered"]

\* variant: a name that is not registered gets an empty record
RegistryDiscoverDefault(reg, name) ==
    IF DiscoverThrows(reg, name) THEN [url |-> 0, status |-> "unknown"]
    ELSE reg[name]

\* serviceRegistry.discover(name): the record, whatever its status
RegistryDiscover(reg, name) ==
    IF DiscoverThrows(reg, name) THEN NotRegistered ELSE reg[name]

\* variant: a heartbeat of an unknown name creates its record
RegistryUpdateHealthUpsert(reg, name, healthy) ==
    [n \in DOMAIN reg \cup {name} |->
        IF n = name
        THEN [url    |-> IF n \in DOMAIN reg THEN reg[n].url ELSE 0,
              status |-> IF healthy THEN "healthy" ELSE "unhealthy"]
        ELSE reg[n]]

\* serviceRegistry.updateHealth(name, healthy): flips the status of a known
\* name, does nothing for an unknown one
RegistryUpdateHealth(reg, name, healthy) ==
    IF name \in DOMAIN reg
    THEN [reg EXCEPT ![name].status = IF healthy THEN "healthy" ELSE "unhealthy"]
    ELSE reg

\* variant: a record whose probe failed is dropped
RegistryHealthChecksEvict(reg, healthy) ==
    [n \in {m \in DOMAIN reg : m \in healthy} |->
        [reg[n] EXCEPT !.status = "healthy"]]

\* serviceRegistry.performHealthChecks(): every record is probed; healthy is
\* the set of names whose probe returned 2xx
RegistryHealthChecks(reg, healthy) ==
    [n \in DOMAIN reg |->
        [reg[n] EXCEPT !.status = IF n \in healthy THEN "healthy"
                                   ELSE "unhealthy"]]

(* ---------------------------- circuit breaker -------------------------- *)
\* variant: the window is compared in seconds instead of milliseconds
HalfOpenBranchSeconds(cb, name, t) ==
    /\ name \in DOMAIN cb
    /\ cb[name].isOpen
    /\ (t - cb[name].lastFailure) > 30

\* variant: the operands of the subtraction are swapped
HalfOpenBranchSwapped(cb, name, t) ==
    /\ name \in DOMAIN cb
    /\ cb[name].isOpen
    /\ (cb[name].lastFailure - t) > OpenDuration

\* variant: the window test is >= instead of >
HalfOpenBranchGe(cb, name, t) ==
    /\ name \in DOMAIN cb
    /\ cb[name].isOpen
    /\ (t - cb[name].lastFailure) >= OpenDuration

\* isCircuitOpen, the half-open branch (lines 128-132) is taken
HalfOpenBranch(cb, name, t) ==
    /\ name \in DOMAIN cb
    /\ cb[name].isOpen
    /\ (t - cb[name].lastFailure) > OpenDuration

\* isCircuitOpen: the value returned
IsCircuitOpen(cb, name, t) ==
    IF name \notin DOMAIN cb THEN FALSE
    ELSE IF HalfOpenBranch(cb, name, t) THEN FALSE
    ELSE cb[name].isOpen

\* variant: a rejected call restarts the window
IsCircuitOpenEffectRestarts(cb, name, t) ==
    IF HalfOpenBranch(cb, name, t)
    THEN [cb EXCEPT ![name].isOpen = FALSE]
    ELSE IF name \in DOMAIN cb /\ cb[name].isOpen
    THEN [cb EXCEPT ![name].lastFailure = t]
    ELSE cb

\* variant: entering half-open also clears the failure counter
IsCircuitOpenEffectClears(cb, name, t) ==
    IF HalfOpenBranch(cb, name, t)
    THEN [cb EXCEPT ![name].isOpen = FALSE, ![name].failures = 0]
    ELSE cb

\* isCircuitOpen: the breaker table after the call
IsCircuitOpenEffect(cb, name, t) ==
    IF HalfOpenBranch(cb, name, t)
    THEN [cb EXCEPT ![name].isOpen = FALSE]
    ELSE cb

\* variant: the timestamp is set when the record is created only
RecordFailureKeepsStamp(cb, name, t) ==
    LET old == IF name \in DOMAIN cb THEN cb[name]
               ELSE [failures |-> 0, isOpen |-> FALSE, lastFailure |-> t]
        n   == old.failures + 1
        new == [failures    |-> n,
                isOpen      |-> IF n >= FailureThreshold THEN TRUE ELSE old.isOpen,
                lastFailure |-> old.lastFailure]
    IN  [s \in DOMAIN cb \cup {name} |-> IF s = name THEN new ELSE cb[s]]

\* variant: the threshold test is > instead of >=
RecordFailureLate(cb, name, t) ==
    LET old == IF name \in DOMAIN cb THEN cb[name]
               ELSE [failures |-> 0, isOpen |-> FALSE, lastFailure |-> t]
        n   == old.failures + 1
        new == [failures    |-> n,
                isOpen      |-> IF n > FailureThreshold THEN TRUE ELSE old.isOpen,
                lastFailure |-> t]
    IN  [s \in DOMAIN cb \cup {name} |-> IF s = name THEN new ELSE cb[s]]

\* variant: one breaker record shared by every target
RecordFailureShared(cb, name, t) ==
    LET old == IF name \in DOMAIN cb THEN cb[name]
               ELSE [failures |-> 0, isOpen |-> FALSE, lastFailure |-> t]
        n   == old.failures + 1
        new == [failures    |-> n,
                isOpen      |-> IF n >= FailureThreshold THEN TRUE ELSE old.isOpen,
                lastFailure |-> t]
    IN  [s \in DOMAIN cb \cup {name} |-> new]

\* variant: the record is created anew on every failure, losing the count
RecordFailureLost(cb, name, t) ==
    LET new == [failures    |-> 1,
                isOpen      |-> IF name \in DOMAIN cb THEN cb[name].isOpen ELSE FALSE,
                lastFailure |-> t]
    IN  [s \in DOMAIN cb \cup {name} |-> IF s = name THEN new ELSE cb[s]]

\* recordFailure: the breaker table after the call at time t
RecordFailure(cb, name, t) ==
    LET old == IF name \in DOMAIN cb THEN cb[name]
               ELSE [failures |-> 0, isOpen |-> FALSE, lastFailure |-> t]
        n   == old.failures + 1
        new == [failures    |-> n,
                isOpen      |-> IF n >= FailureThreshold THEN TRUE ELSE old.isOpen,
                lastFailure |-> t]
    IN  [s \in DOMAIN cb \cup {name} |-> IF s = name THEN new ELSE cb[s]]

\* variant: a target without a record gets a closed one
ResetCircuitBreakerCreates(cb, name) ==
    [s \in DOMAIN cb \cup {name} |->
        IF s = name
        THEN [failures |-> 0, isOpen |-> FALSE,
              lastFailure |-> IF s \in DOMAIN cb THEN cb[s].lastFailure ELSE 0]
        ELSE cb[s]]

\* variant: only the counter is reset
ResetCircuitBreakerKeepsOpen(cb, name) ==
    IF name \in DOMAIN cb
    THEN [cb EXCEPT ![name].failures = 0]
    ELSE cb

\* variant: only the flag is reset
ResetCircuitBreakerKeepsCount(cb, name) ==
    IF name \in DOMAIN cb
    THEN [cb EXCEPT ![name].isOpen = FALSE]
    ELSE cb

\* resetCircuitBreaker: the breaker table after the call
ResetCircuitBreaker(cb, name) ==
    IF name \in DOMAIN cb
    THEN [cb EXCEPT ![name].failures = 0, ![name].isOpen = FALSE]
    ELSE cb

\* failure counter of a target, 0 when it has no record
Failures(cb, name) == IF name \in DOMAIN cb THEN cb[name].failures ELSE 0

(* ------------------------------ requests ------------------------------- *)
\* a response: the target it was for, the status and the message sent
NoResponse == [target |-> "none", status |-> 0, message |-> "none"]

\* what an aggregate endpoint knows of one callService call: whether it is
\* pending, fulfilled or rejected, the Authorization header that went out
\* with it ("unsent": no request left the gateway) and the data it returned
NoSlot == [state |-> "none", auth |-> "unsent", data |-> "none"]
NoAggregate ==
    [endpoint |-> "none", authHeader |-> "none", lists |-> NoSlot, items |-> NoSlot]
\* a response of an aggregate endpoint: status and the two data sections
NoAggResponse ==
    [endpoint |-> "none", status |-> 0, lists |-> "none", items |-> "none"]

\* what an authMiddleware did: the status it answered, or next() was called
NoAuthResponse == [service |-> "none", status |-> 0, next |-> FALSE]

\* list-service has sent no response yet
NoListResponse == [user |-> "none", status |-> 0, data |-> {}]

\* user-service has sent no response yet
NoUserResponse == [status |-> 0]

Init ==
    /\ now = 0
    /\ registry = << >>
    /\ circuitBreakers = << >>
    /\ inFlight = EmptyBag
    /\ response = NoResponse
    /\ aggregate = NoAggregate
    /\ aggResponse = NoAggResponse
    /\ validating = [s \in Services |-> FALSE]
    /\ authFailures = [s \in Services |-> 0]
    /\ authResponse = NoAuthResponse
    /\ lists = << >>
    /\ created = 0
    /\ handlers = EmptyBag
    /\ suspended = 0
    /\ listResponse = NoListResponse
    /\ ackedItems = [id \in ListIds |-> {}]
    /\ users = << >>
    /\ registering = EmptyBag
    /\ userResponse = NoUserResponse

\* Date.now() advances
Tick ==
    /\ \E t \in Times : t > now /\ now' = t
    /\ UNCHANGED <<registry, circuitBreakers, inFlight, response>>
    /\ UNCHANGED <<aggVars, authVars>>
    /\ UNCHANGED dbVars

\* a service starts and registers itself
Register(name) ==
    /\ registry' = RegistryRegister(registry, name, ServiceUrl(name))
    /\ UNCHANGED <<now, circuitBreakers, inFlight, response>>
    /\ UNCHANGED <<aggVars, authVars>>
    /\ UNCHANGED dbVars

\* variant: the catch block answers 500 when the error has no response
CatchStatusInternal(hasResponse, code) ==
    IF hasResponse THEN code ELSE 500

\* variant: the catch block answers 503 whatever the downstream said
CatchStatusGeneric(hasResponse, code) ==
    ServiceUnavailable

\* line 67: error.response ? error.response.status : 503
CatchStatus(hasResponse, code) ==
    IF hasResponse THEN code ELSE ServiceUnavailable

\* line 68: error.response ? error.response.data.message : `Servico X indisponivel`
CatchMessage(hasResponse) ==
    IF hasResponse THEN "downstream" ELSE "unavailable"

\* proxyRequest up to its await (lines 44-61)
ProxyRequest(name) ==
    /\ LET cb1 == IsCircuitOpenEffect(circuitBreakers, name, now) IN
       IF IsCircuitOpen(circuitBreakers, name, now)
       THEN \* line 47
            /\ circuitBreakers' = cb1
            /\ response' = [target |-> name, status |-> ServiceUnavailable,
                            message |-> "temporarily unavailable"]
            /\ UNCHANGED inFlight
       ELSE IF DiscoverThrows(registry, name)
       THEN \* line 50 throws, lines 65-69
            /\ Failures(cb1, name) < MaxFailures
            /\ circuitBreakers' = RecordFailure(cb1, name, now)
            /\ response' = [target  |-> name,
                            status  |-> CatchStatus(FALSE, 0),
                            message |-> CatchMessage(FALSE)]
            /\ UNCHANGED inFlight
       ELSE \* lines 56-61: the call goes out, the handler awaits
            /\ BagCardinality(inFlight) < NumReqs
            /\ circuitBreakers' = cb1
            /\ inFlight' = inFlight (+) SetToBag(
                   {[target |-> name,
                     trial |-> HalfOpenBranch(circuitBreakers, name, now)]})
            /\ UNCHANGED response
    /\ UNCHANGED <<now, registry>>
    /\ UNCHANGED <<aggVars, authVars>>
    /\ UNCHANGED dbVars

\* variant: every 2xx is answered 200
SuccessStatusOk(code) ==
    200

\* line 64: res.status(response.status)
SuccessStatus(code) ==
    code

\* variant: a call that got no response is sent again
AwaitingAfterRetry(bag, call, outcome) ==
    IF outcome = "transport_error" THEN bag ELSE bag (-) SetToBag({call})

\* the calls still awaited once one of them has settled: lines 62-70 send
\* nothing
AwaitingAfter(bag, call, outcome) ==
    bag (-) SetToBag({call})

\* proxyRequest after its await (lines 62-70)
ProxyResponse(call, outcome, code) ==
    /\ BagIn(call, inFlight)
    /\ LET name == call.target IN
       IF outcome = "ok"
       THEN \* lines 63-64
            /\ code \in SuccessStatuses
            /\ circuitBreakers' = ResetCircuitBreaker(circuitBreakers, name)
            /\ response' = [target |-> name, status |-> SuccessStatus(code),
                            message |-> "downstream"]
       ELSE \* lines 65-69
            /\ Failures(circuitBreakers, name) < MaxFailures
            /\ circuitBreakers' = RecordFailure(circuitBreakers, name, now)
            /\ IF outcome = "http_error"
               THEN code \in ErrorStatuses
               ELSE code = ServiceUnavailable
            /\ response' = [target  |-> name,
                            status  |-> CatchStatus(outcome = "http_error", code),
                            message |-> CatchMessage(outcome = "http_error")]
    /\ inFlight' = AwaitingAfter(inFlight, call, outcome)
    /\ UNCHANGED <<now, registry>>
    /\ UNCHANGED <<aggVars, authVars>>
    /\ UNCHANGED dbVars

(* ------------------------- aggregate endpoints ------------------------- *)
\* line 118: authHeader ? { 'Authorization': authHeader } : {}
CallServiceHeaders(authHeader) == authHeader

\* callService up to its await (lines 117-119): discover throws and the
\* promise is rejected, or the GET goes out with the headers of line 118
CallService(reg, name, authHeader) ==
    IF DiscoverThrows(reg, name)
    THEN [state |-> "rejected", auth |-> "unsent", data |-> "none"]
    ELSE [state |-> "pending", auth |-> CallServiceHeaders(authHeader),
          data |-> "none"]

\* callService after its await (lines 119-120): the promise settles
CallServiceSettled(slot, outcome, data) ==
    IF outcome = "ok"
    THEN [slot EXCEPT !.state = "fulfilled", !.data = data]
    ELSE [slot EXCEPT !.state = "rejected"]

Settled(slot) == slot.state \in {"fulfilled", "rejected"}

\* variant: the caller's header goes to both sub-calls
DashboardCallsForwardAll(authHeader) ==
    [lists |-> authHeader, items |-> authHeader]

\* lines 87-88: the authHeader argument of the two callService calls
DashboardCalls(authHeader) ==
    [lists |-> authHeader, items |-> "none"]

\* variant: the value is read whatever the status of the promise
DashboardSectionUnchecked(slot) ==
    slot.data

\* lines 92-93: status === 'fulfilled' ? value.data : []
DashboardSection(slot) ==
    IF slot.state = "fulfilled" THEN slot.data ELSE "[]"

\* getDashboard once both promises of Promise.allSettled are settled
\* (lines 91-96); until then it stays suspended at line 86
DashboardContinue(agg) ==
    IF Settled(agg.lists) /\ Settled(agg.items)
    THEN /\ aggregate' = NoAggregate
         /\ aggResponse' = [endpoint |-> "dashboard", status |-> 200,
                            lists |-> DashboardSection(agg.lists),
                            items |-> DashboardSection(agg.items)]
    ELSE /\ aggregate' = agg
         /\ UNCHANGED aggResponse

\* globalSearch once its callService promise is settled (lines 108-112)
SearchContinue(agg) ==
    IF agg.items.state = "fulfilled"
    THEN /\ aggregate' = NoAggregate
         /\ aggResponse' = [endpoint |-> "search", status |-> 200,
                            lists |-> "none", items |-> agg.items.data]
    ELSE IF agg.items.state = "rejected"
    THEN /\ aggregate' = NoAggregate
         /\ aggResponse' = [endpoint |-> "search", status |-> 500,
                            lists |-> "none", items |-> "none"]
    ELSE /\ aggregate' = agg
         /\ UNCHANGED aggResponse

\* line 84: !authHeader
MissingHeader(authHeader) == authHeader = "none"

\* variant: the q parameter is not looked at
MissingQueryIgnored(q) == FALSE

\* line 105: !q
MissingQuery(q) == q = ""

\* getDashboard up to its await (lines 81-89)
GetDashboard(authHeader) ==
    /\ aggregate = NoAggregate
    /\ IF MissingHeader(authHeader)
       THEN \* line 84
            /\ aggResponse' = [endpoint |-> "dashboard", status |-> 401,
                               lists |-> "none", items |-> "none"]
            /\ UNCHANGED aggregate
       ELSE DashboardContinue(
              [endpoint   |-> "dashboard",
               authHeader |-> authHeader,
               lists      |-> CallService(registry, "list-service",
                                          DashboardCalls(authHeader).lists),
               items      |-> CallService(registry, "item-service",
                                          DashboardCalls(authHeader).items)])
    /\ UNCHANGED <<now, registry, circuitBreakers, inFlight, response>>
    /\ UNCHANGED authVars
    /\ UNCHANGED dbVars

\* globalSearch up to its await (lines 102-108)
GlobalSearch(q) ==
    /\ aggregate = NoAggregate
    /\ IF MissingQuery(q)
       THEN \* line 105
            /\ aggResponse' = [endpoint |-> "search", status |-> 400,
                               lists |-> "none", items |-> "none"]
            /\ UNCHANGED aggregate
       ELSE SearchContinue(
              [endpoint   |-> "search",
               authHeader |-> "none",
               lists      |-> NoSlot,
               items      |-> CallService(registry, "item-service", "none")])
    /\ UNCHANGED <<now, registry, circuitBreakers, inFlight, response>>
    /\ UNCHANGED authVars
    /\ UNCHANGED dbVars

\* the axios.get of one callService call settles and the endpoint that
\* awaits it goes on
CallServiceSettles(name, outcome, data) ==
    /\ IF name = "list-service"
       THEN /\ aggregate.lists.state = "pending"
            /\ DashboardContinue(
                 [aggregate EXCEPT
                    !.lists = CallServiceSettled(@, outcome, data)])
       ELSE /\ aggregate.items.state = "pending"
            /\ LET agg == [aggregate EXCEPT
                              !.items = CallServiceSettled(@, outcome, data)]
               IN  IF aggregate.endpoint = "dashboard"
                   THEN DashboardContinue(agg)
                   ELSE SearchContinue(agg)
    /\ UNCHANGED <<now, registry, circuitBreakers, inFlight, response>>
    /\ UNCHANGED authVars
    /\ UNCHANGED dbVars

(* ------------- authMiddleware of list-service and item-service --------- *)
\* authHeader?.startsWith('Bearer ')
StartsWithBearer(header) == header \in {"Bearer a", "Bearer b"}

\* one more failed validation in the history, up to the cap
CountAuthFailure(n) == IF n < MaxFailures THEN n + 1 ELSE n

\* user-service starts and registers itself
RegisterUserService ==
    /\ registry' = RegistryRegister(registry, "user-service",
                                    ServiceUrl("user-service"))
    /\ UNCHANGED <<now, circuitBreakers, inFlight, response>>
    /\ UNCHANGED <<aggVars, authVars>>
    /\ UNCHANGED dbVars

\* authMiddleware of service up to its await
AuthMiddleware(service, header) ==
    /\ ~validating[service]
    /\ IF ~StartsWithBearer(header)
       THEN \* 401 'Token obrigatorio'
            /\ authResponse' = [service |-> service, status |-> 401,
                                next |-> FALSE]
            /\ UNCHANGED <<validating, authFailures>>
       ELSE IF DiscoverThrows(registry, "user-service")
       THEN \* discover throws: the catch block answers 503
            /\ authResponse' = [service |-> service,
                                status |-> ServiceUnavailable, next |-> FALSE]
            /\ authFailures' = [authFailures EXCEPT
                                   ![service] = CountAuthFailure(@)]
            /\ UNCHANGED validating
       ELSE \* axios.post goes out, the middleware awaits
            /\ validating' = [validating EXCEPT ![service] = TRUE]
            /\ UNCHANGED <<authFailures, authResponse>>
    /\ UNCHANGED <<now, registry, circuitBreakers, inFlight, response>>
    /\ UNCHANGED aggVars
    /\ UNCHANGED dbVars

\* validateToken of user-service: the HTTP answer to POST /auth/validate
ValidateToken(verdict) ==
    IF verdict = "good" THEN [status |-> 200, success |-> TRUE]
    ELSE IF verdict = "orphan" THEN [status |-> 404, success |-> FALSE]
    ELSE [status |-> 401, success |-> FALSE]

\* no answer reached the caller
NoAnswer == [status |-> 0, success |-> FALSE]

\* what user-service may answer, or not answer, to one POST /auth/validate
ValidateAnswers == {ValidateToken(verdict) : verdict \in TokenVerdicts}
                      \cup {NoAnswer}

\* how the awaited axios.post settles on an answer: it resolves on a 2xx
\* status and throws on every other status and on no answer
AxiosOutcome(answer) ==
    IF answer.status = 0 THEN "transport_error"
    ELSE IF answer.status \in 200..299
    THEN IF answer.success THEN "valid" ELSE "invalid"
    ELSE "http_error"

\* authMiddleware of service after its await
ValidateSettles(service, outcome) ==
    /\ validating[service]
    /\ validating' = [validating EXCEPT ![service] = FALSE]
    /\ IF outcome = "valid"
       THEN \* response.data.success: next()
            /\ authResponse' = [service |-> service, status |-> 0,
                                next |-> TRUE]
            /\ authFailures' = [authFailures EXCEPT ![service] = 0]
       ELSE IF outcome = "invalid"
       THEN \* 401 'Token invalido'
            /\ authResponse' = [service |-> service, status |-> 401,
                                next |-> FALSE]
            /\ authFailures' = [authFailures EXCEPT ![service] = 0]
       ELSE \* axios threw: the catch block answers 503
            /\ authResponse' = [service |-> service,
                                status |-> ServiceUnavailable, next |-> FALSE]
            /\ authFailures' = [authFailures EXCEPT ![service] =
                                   IF outcome = "transport_error"
                                   THEN CountAuthFailure(@) ELSE 0]
    /\ UNCHANGED <<now, registry, circuitBreakers, inFlight, response>>
    /\ UNCHANGED aggVars
    /\ UNCHANGED dbVars

(* ------------------- the document store (JsonDatabase) ----------------- *)
\* findById(id) finds a document
DbHas(db, id) == id \in DOMAIN db

\* find({ userId }): the ids of the documents of one user
DbFind(db, user) == {id \in DOMAIN db : db[id].userId = user}

\* create(doc)
DbCreate(db, id, doc) ==
    [k \in DOMAIN db \cup {id} |-> IF k = id THEN doc ELSE db[k]]

\* update(id, updates): the named fields are replaced; nothing happens when
\* the document is gone
DbUpdate(db, id, updates) ==
    IF DbHas(db, id)
    THEN [db EXCEPT ![id] =
             [f \in DOMAIN db[id] |->
                 IF f \in DOMAIN updates THEN updates[f] ELSE db[id][f]]]
    ELSE db

\* delete(id)
DbDelete(db, id) == [k \in DOMAIN db \ {id} |-> db[k]]

(* ------------------------------ list-service --------------------------- *)
\* what the gateway and the authMiddleware write
gatewayVars == <<now, circuitBreakers, inFlight, response, aggVars, authVars>>

\* calculateSummary(items)
CalculateSummary(items) ==
    [totalItems |-> Len(items),
     purchasedItems |-> Cardinality({k \in 1..Len(items) : items[k].purchased})]

OwnsAny(list, user) == TRUE

\* list.userId === req.user.id
Owns(list, user) == list.userId = user

\* !list || list.userId !== req.user.id
Denied(db, id, user) == ~DbHas(db, id) \/ ~Owns(db[id], user)

\* res.status(status).json(...) on behalf of user; data names the lists whose
\* content the body carries
ListAnswer(user, status, data) ==
    [user |-> user, status |-> status, data |-> data]

\* a handler suspended between its findById and its write
Handler(op, user, id, itemId, name, items) ==
    [op |-> op, user |-> user, id |-> id, itemId |-> itemId, name |-> name,
     items |-> items]

\* the handler goes to sleep at its await
Suspend(h) ==
    /\ suspended < MaxHandlers
    /\ suspended' = suspended + 1
    /\ handlers' = handlers (+) SetToBag({h})
    /\ UNCHANGED listResponse

\* the handler answers without a write
AnswerOnly(user, status, data) ==
    /\ listResponse' = ListAnswer(user, status, data)
    /\ UNCHANGED <<handlers, suspended>>

\* createList
CreateList(user, name) ==
    /\ IF name = ""
       THEN /\ listResponse' = ListAnswer(user, 400, {})
            /\ UNCHANGED <<lists, created>>
       ELSE /\ created < MaxLists
            /\ created' = created + 1
            /\ lists' = DbCreate(lists, created + 1,
                                 [userId |-> user, name |-> name,
                                  items |-> << >>,
                                  summary |-> [totalItems |-> 0,
                                               purchasedItems |-> 0]])
            /\ listResponse' = ListAnswer(user, 201, {created + 1})
    /\ UNCHANGED <<handlers, suspended, ackedItems>>
    /\ UNCHANGED <<gatewayVars, registry, userVars>>

\* getUserLists
GetUserLists(user) ==
    /\ listResponse' = ListAnswer(user, 200, DbFind(lists, user))
    /\ UNCHANGED <<lists, created, handlers, suspended, ackedItems>>
    /\ UNCHANGED <<gatewayVars, registry, userVars>>

\* getListById
GetListById(user, id) ==
    /\ IF ~DbHas(lists, id) THEN listResponse' = ListAnswer(user, 404, {})
       ELSE IF ~Owns(lists[id], user)
       THEN listResponse' = ListAnswer(user, 403, {})
       ELSE listResponse' = ListAnswer(user, 200, {id})
    /\ UNCHANGED <<lists, created, handlers, suspended, ackedItems>>
    /\ UNCHANGED <<gatewayVars, registry, userVars>>

\* getListSummary
GetListSummary(user, id) ==
    /\ IF Denied(lists, id, user)
       THEN listResponse' = ListAnswer(user, 404, {})
       ELSE listResponse' = ListAnswer(user, 200, {id})
    /\ UNCHANGED <<lists, created, handlers, suspended, ackedItems>>
    /\ UNCHANGED <<gatewayVars, registry, userVars>>

\* updateList up to its write
UpdateList(user, id, name) ==
    /\ IF Denied(lists, id, user)
       THEN AnswerOnly(user, 404, {})
       ELSE Suspend(Handler("updateList", user, id, "none", name, << >>))
    /\ UNCHANGED <<lists, created, ackedItems>>
    /\ UNCHANGED <<gatewayVars, registry, userVars>>

\* deleteList up to its write
DeleteList(user, id) ==
    /\ IF Denied(lists, id, user)
       THEN AnswerOnly(user, 404, {})
       ELSE Suspend(Handler("deleteList", user, id, "none", "", << >>))
    /\ UNCHANGED <<lists, created, ackedItems>>
    /\ UNCHANGED <<gatewayVars, registry, userVars>>

\* addItemToList up to its GET /items/:id
AddItemToList(user, id, itemId) ==
    /\ IF Denied(lists, id, user)
       THEN AnswerOnly(user, 404, {})
       ELSE IF itemId = "none"
       THEN AnswerOnly(user, 400, {})
       ELSE IF DiscoverThrows(registry, "item-service")
       THEN AnswerOnly(user, 500, {})
       ELSE Suspend(Handler("addItem", user, id, itemId, "", lists[id].items))
    /\ UNCHANGED <<lists, created, ackedItems>>
    /\ UNCHANGED <<gatewayVars, registry, userVars>>

\* list.items.findIndex(item => item.itemId === itemId), 0 for -1
FindIndex(items, itemId) ==
    IF \E k \in 1..Len(items) : items[k].itemId = itemId
    THEN CHOOSE k \in 1..Len(items) :
            /\ items[k].itemId = itemId
            /\ \A j \in 1..(k - 1) : items[j].itemId # itemId
    ELSE 0

\* updateItemInList up to its write
UpdateItemInList(user, id, itemId, purchased) ==
    /\ IF Denied(lists, id, user)
       THEN AnswerOnly(user, 404, {})
       ELSE IF FindIndex(lists[id].items, itemId) = 0
       THEN AnswerOnly(user, 404, {})
       ELSE Suspend(Handler("updateItem", user, id, itemId, "",
                            [lists[id].items EXCEPT
                                ![FindIndex(lists[id].items, itemId)].purchased
                                    = purchased]))
    /\ UNCHANGED <<lists, created, ackedItems>>
    /\ UNCHANGED <<gatewayVars, registry, userVars>>

\* list.items.filter(item => item.itemId !== itemId)
FilterOut(items, itemId) == SelectSeq(items, LAMBDA it : it.itemId # itemId)

\* removeItemFromList up to its write
RemoveItemFromList(user, id, itemId) ==
    /\ IF Denied(lists, id, user)
       THEN AnswerOnly(user, 404, {})
       ELSE IF Len(FilterOut(lists[id].items, itemId)) = Len(lists[id].items)
       THEN AnswerOnly(user, 404, {})
       ELSE Suspend(Handler("removeItem", user, id, itemId, "",
                            FilterOut(lists[id].items, itemId)))
    /\ UNCHANGED <<lists, created, ackedItems>>
    /\ UNCHANGED <<gatewayVars, registry, userVars>>

\* the handler h wakes up and is gone from the suspended ones
Resume(h, op) ==
    /\ h.op = op
    /\ handlers' = handlers (-) SetToBag({h})

\* the body of a response that carries the updated list, null when gone
Updated(db, id) == IF DbHas(db, id) THEN {id} ELSE {}

\* updateList from its write on
UpdateListSettles ==
    /\ \E h \in BagToSet(handlers) :
          /\ Resume(h, "updateList")
          /\ lists' = DbUpdate(lists, h.id, [name |-> h.name])
          /\ listResponse' = ListAnswer(h.user, 200, Updated(lists, h.id))
    /\ UNCHANGED <<created, suspended, ackedItems>>
    /\ UNCHANGED <<gatewayVars, registry, userVars>>

\* deleteList from its write on
DeleteListSettles ==
    /\ \E h \in BagToSet(handlers) :
          /\ Resume(h, "deleteList")
          /\ lists' = DbDelete(lists, h.id)
          /\ listResponse' = ListAnswer(h.user, 204, {})
          /\ ackedItems' = [ackedItems EXCEPT ![h.id] = {}]
    /\ UNCHANGED <<created, suspended>>
    /\ UNCHANGED <<gatewayVars, registry, userVars>>

\* the items and the summary a handler writes
ItemsUpdate(items) == [items |-> items, summary |-> CalculateSummary(items)]

\* addItemToList from the answer of item-service on
AddItemSettles(outcome) ==
    /\ \E h \in BagToSet(handlers) :
          /\ Resume(h, "addItem")
          /\ IF outcome = "error"
             THEN /\ listResponse' = ListAnswer(h.user, 500, {})
                  /\ UNCHANGED <<lists, ackedItems>>
             ELSE IF outcome = "missing"
             THEN /\ listResponse' = ListAnswer(h.user, 404, {})
                  /\ UNCHANGED <<lists, ackedItems>>
             ELSE /\ lists' = DbUpdate(lists, h.id,
                                 ItemsUpdate(Append(h.items,
                                    [itemId |-> h.itemId,
                                     purchased |-> FALSE])))
                  /\ listResponse' = ListAnswer(h.user, 201,
                                                Updated(lists, h.id))
                  /\ ackedItems' = [ackedItems EXCEPT ![h.id] =
                                       IF DbHas(lists, h.id)
                                       THEN @ \cup {h.itemId} ELSE @]
    /\ UNCHANGED <<created, suspended>>
    /\ UNCHANGED <<gatewayVars, registry, userVars>>

\* updateItemInList from its write on
UpdateItemSettles ==
    /\ \E h \in BagToSet(handlers) :
          /\ Resume(h, "updateItem")
          /\ lists' = DbUpdate(lists, h.id, ItemsUpdate(h.items))
          /\ listResponse' = ListAnswer(h.user, 200, Updated(lists, h.id))
    /\ UNCHANGED <<created, suspended, ackedItems>>
    /\ UNCHANGED <<gatewayVars, registry, userVars>>

\* removeItemFromList from its write on
RemoveItemSettles ==
    /\ \E h \in BagToSet(handlers) :
          /\ Resume(h, "removeItem")
          /\ lists' = DbUpdate(lists, h.id, ItemsUpdate(h.items))
          /\ listResponse' = ListAnswer(h.user, 200, Updated(lists, h.id))
          /\ ackedItems' = [ackedItems EXCEPT ![h.id] = @ \ {h.itemId}]
    /\ UNCHANGED <<created, suspended>>
    /\ UNCHANGED <<gatewayVars, registry, userVars>>

(* ------------------------------ user-service --------------------------- *)
\* findOne({ $or: [{ email }, { username }] }) finds a user
DbFindOne(db, email, username) ==
    \E k \in 1..Len(db) : db[k].email = email \/ db[k].username = username

\* register up to its bcrypt.hash
RegisterUser(email, username) ==
    /\ IF email = ""
       THEN \* 400 'Todos os campos sao obrigatorios'
            /\ userResponse' = [status |-> 400]
            /\ UNCHANGED registering
       ELSE IF DbFindOne(users, email, username)
       THEN \* 409 'Email ou username ja em uso'
            /\ userResponse' = [status |-> 409]
            /\ UNCHANGED registering
       ELSE \* the handler awaits bcrypt.hash
            /\ Len(users) + BagCardinality(registering) < MaxUsers
            /\ registering' = registering (+)
                   SetToBag({[email |-> email, username |-> username]})
            /\ UNCHANGED userResponse
    /\ UNCHANGED users
    /\ UNCHANGED <<gatewayVars, registry, listVars>>

\* register from the result of bcrypt.hash on: usersDb.create and 201
HashSettles ==
    /\ \E r \in BagToSet(registering) :
          /\ registering' = registering (-) SetToBag({r})
          /\ users' = Append(users, r)
    /\ userResponse' = [status |-> 201]
    /\ UNCHANGED <<gatewayVars, registry, listVars>>

(* --------------------------- registry calls ---------------------------- *)
\* serviceRegistry.register(name, { url }) of a service that starts
RegisterAt(name, url) ==
    /\ registry' = RegistryRegister(registry, name, url)
    /\ UNCHANGED <<now, circuitBreakers, inFlight, response>>
    /\ UNCHANGED <<aggVars, authVars>>
    /\ UNCHANGED dbVars

\* the 30 s heartbeat of a service, serviceRegistry.updateHealth(name, healthy)
UpdateHealth(name, healthy) ==
    /\ registry' = RegistryUpdateHealth(registry, name, healthy)
    /\ UNCHANGED <<now, circuitBreakers, inFlight, response>>
    /\ UNCHANGED <<aggVars, authVars>>
    /\ UNCHANGED dbVars

\* the gateway's 30 s timer (line 159), serviceRegistry.performHealthChecks()
PerformHealthChecks(healthy) ==
    /\ registry' = RegistryHealthChecks(registry, healthy)
    /\ UNCHANGED <<now, circuitBreakers, inFlight, response>>
    /\ UNCHANGED <<aggVars, authVars>>
    /\ UNCHANGED dbVars

Next ==
    \/ Tick
    \/ \E name \in Services : Register(name)
    \/ \E name \in Services : ProxyRequest(name)
    \/ \E call \in Calls, outcome \in Outcomes,
          code \in SuccessStatuses \cup ErrorStatuses \cup {ServiceUnavailable} :
            ProxyResponse(call, outcome, code)

Spec == Init /\ [][Next]_vars

\* the proxy with a clock that keeps running. Nothing else is fair: a
\* downstream may never answer, and line 56 gives axios no timeout, so the
\* gateway has no step of its own for a call that is not answered
SpecTimeout == Init /\ [][Next]_vars /\ WF_vars(Tick)

\* the traffic of one target (the breaker methods touch the record of their
\* own target only) under the conditions a recovery is promised for: the
\* clock keeps running, requests to the target keep arriving, and every
\* awaited call is answered
RecoveryTarget == "item-service"

NextRecovery ==
    \/ Tick
    \/ Register(RecoveryTarget)
    \/ ProxyRequest(RecoveryTarget)
    \/ \E call \in Calls, outcome \in Outcomes,
          code \in SuccessStatuses \cup ErrorStatuses \cup {ServiceUnavailable} :
            ProxyResponse(call, outcome, code)

SpecRecovery ==
    /\ Init /\ [][NextRecovery]_vars
    /\ WF_vars(Tick)
    /\ SF_vars(ProxyRequest(RecoveryTarget))
    /\ WF_vars(\E call \in Calls, outcome \in Outcomes,
                  code \in SuccessStatuses \cup ErrorStatuses
                              \cup {ServiceUnavailable} :
                    ProxyResponse(call, outcome, code))

\* the registry under the calls of the services and of the gateway's timer
NextRegistry ==
    \/ \E name \in RegistryNames, url \in Urls : RegisterAt(name, url)
    \/ \E name \in RegistryNames, healthy \in BOOLEAN :
          UpdateHealth(name, healthy)
    \/ \E healthy \in SUBSET RegistryNames : PerformHealthChecks(healthy)

SpecRegistry == Init /\ [][NextRegistry]_vars

\* the aggregate endpoints over the registry
NextAggregate ==
    \/ \E name \in Services : Register(name)
    \/ \E authHeader \in Headers : GetDashboard(authHeader)
    \/ \E q \in Queries : GlobalSearch(q)
    \/ \E name \in Services, outcome \in Outcomes, data \in Data :
          CallServiceSettles(name, outcome, data)

SpecAggregate == Init /\ [][NextAggregate]_vars

\* token validation by list-service and item-service
NextAuth ==
    \/ RegisterUserService
    \/ \E service \in Services, header \in AuthHeaders :
          AuthMiddleware(service, header)
    \/ \E service \in Services, answer \in ValidateAnswers :
          ValidateSettles(service, AxiosOutcome(answer))

SpecAuth == Init /\ [][NextAuth]_vars

\* the handlers of list-service, every request past its authMiddleware
NextLists ==
    \/ Register("item-service")
    \/ \E user \in UserIds, name \in Names : CreateList(user, name)
    \/ \E user \in UserIds : GetUserLists(user)
    \/ \E user \in UserIds, id \in ListIds : GetListById(user, id)
    \/ \E user \in UserIds, id \in ListIds : GetListSummary(user, id)
    \/ \E user \in UserIds, id \in ListIds, name \in Names :
          UpdateList(user, id, name)
    \/ \E user \in UserIds, id \in ListIds : DeleteList(user, id)
    \/ \E user \in UserIds, id \in ListIds, itemId \in ItemIds \cup {"none"} :
          AddItemToList(user, id, itemId)
    \/ \E user \in UserIds, id \in ListIds, itemId \in ItemIds,
          purchased \in BOOLEAN :
            UpdateItemInList(user, id, itemId, purchased)
    \/ \E user \in UserIds, id \in ListIds, itemId \in ItemIds :
          RemoveItemFromList(user, id, itemId)
    \/ UpdateListSettles
    \/ DeleteListSettles
    \/ \E outcome \in ItemOutcomes : AddItemSettles(outcome)
    \/ UpdateItemSettles
    \/ RemoveItemSettles

SpecLists == Init /\ [][NextLists]_vars

\* the register requests of user-service
NextUsers ==
    \/ \E email \in Emails, username \in Usernames :
          RegisterUser(email, username)
    \/ HashSettles

SpecUsers == Init /\ [][NextUsers]_vars

\* the proxy and the aggregate endpoints of one gateway, the clock standing
\* still: an open breaker stays within its window
NextGateway ==
    \/ \E name \in Services : Register(name)
    \/ \E name \in Services : ProxyRequest(name)
    \/ \E call \in Calls, outcome \in Outcomes,
          code \in SuccessStatuses \cup ErrorStatuses \cup {ServiceUnavailable} :
            ProxyResponse(call, outcome, code)
    \/ \E authHeader \in Headers : GetDashboard(authHeader)
    \/ \E q \in Queries : GlobalSearch(q)
    \/ \E name \in Services, outcome \in Outcomes, data \in Data :
          CallServiceSettles(name, outcome, data)

SpecGateway == Init /\ [][NextGateway]_vars

TypeOK ==
    /\ now \in Times
    /\ DOMAIN registry \subseteq RegistryNames
    /\ \A n \in DOMAIN registry :
          /\ registry[n].url \in Urls
          /\ registry[n].status \in {"unknown", "healthy", "unhealthy"}
    /\ DOMAIN circuitBreakers \subseteq Services
    /\ \A s \in DOMAIN circuitBreakers :
          /\ circuitBreakers[s].failures \in 0..MaxFailures
          /\ circuitBreakers[s].isOpen \in BOOLEAN
          /\ circuitBreakers[s].lastFailure \in Times
    /\ IsABag(inFlight)
    /\ BagToSet(inFlight) \subseteq Calls
    /\ BagCardinality(inFlight) <= NumReqs
    /\ aggregate.endpoint \in {"none", "dashboard", "search"}
    /\ aggregate.authHeader \in Headers
    /\ \A slot \in {aggregate.lists, aggregate.items} :
          /\ slot.state \in {"none", "pending", "fulfilled", "rejected"}
          /\ slot.auth \in Headers \cup {"unsent"}
          /\ slot.data \in Data \cup {"none"}
    /\ aggResponse.status \in {0, 200, 400, 401, 500}
    /\ validating \in [Services -> BOOLEAN]
    /\ authFailures \in [Services -> 0..MaxFailures]
    /\ authResponse.status \in {0, 401, ServiceUnavailable}
    /\ DOMAIN lists \subseteq ListIds
    /\ \A id \in DOMAIN lists :
          /\ lists[id].userId \in UserIds
          /\ lists[id].name \in Names
          /\ \A k \in 1..Len(lists[id].items) :
                /\ lists[id].items[k].itemId \in ItemIds
                /\ lists[id].items[k].purchased \in BOOLEAN
    /\ created \in 0..MaxLists
    /\ suspended \in 0..MaxHandlers
    /\ IsABag(handlers)
    /\ BagCardinality(handlers) <= MaxHandlers
    /\ listResponse.status \in {0, 200, 201, 204, 400, 403, 404, 500}
    /\ listResponse.data \subseteq ListIds
    /\ ackedItems \in [ListIds -> SUBSET ItemIds]
    /\ Len(users) <= MaxUsers
    /\ \A k \in 1..Len(users) :
          users[k].email \in Emails /\ users[k].username \in Usernames
    /\ IsABag(registering)
    /\ userResponse.status \in {0, 201, 400, 409}


(* ----------------------- steps the claims speak of --------------------- *)
\* the answer of line 47
Rejection(name) ==
    [target |-> name, status |-> ServiceUnavailable,
     message |-> "temporarily unavailable"]

\* this step is a proxyRequest to name that was answered by line 47
RejectedStep(name) ==
    ProxyRequest(name) /\ response' = Rejection(name) /\ inFlight' = inFlight

\* this step sends an outbound call to name
OutboundCall(name) ==
    \E call \in Calls : /\ call.target = name
                        /\ CopiesIn(call, inFlight') > CopiesIn(call, inFlight)

\* this step runs recordFailure(name): line 66, from either segment
FailureRecorded(name) ==
    \/ /\ inFlight' = inFlight
       /\ ~IsCircuitOpen(circuitBreakers, name, now)
       /\ DiscoverThrows(registry, name)
       /\ ProxyRequest(name)
    \/ /\ inFlight' # inFlight
       /\ \E call \in BagToSet(inFlight), outcome \in Outcomes \ {"ok"} :
             /\ call.target = name
             /\ ProxyResponse(call, outcome, response'.status)

\* this step runs resetCircuitBreaker(name): line 63
SuccessRecorded(name) ==
    /\ inFlight' # inFlight
    /\ \E call \in BagToSet(inFlight) :
          /\ call.target = name
          /\ ProxyResponse(call, "ok", response'.status)

\* the breaker of name is open and its window has not elapsed at time t
OpenAt(cb, name, t) ==
    /\ name \in DOMAIN cb
    /\ cb[name].isOpen
    /\ t - cb[name].lastFailure <= OpenDuration

\* the call that found the breaker of name half-open is in flight
TrialInFlight(name) == BagIn([target |-> name, trial |-> TRUE], inFlight)

\* the record of a target, as a set so that "no record" compares
RecordOf(cb, name) == {cb[s] : s \in DOMAIN cb \cap {name}}

(* -------------------------------- claims ------------------------------- *)
\* C1: while the breaker of a target is open and its window has not elapsed,
\* every proxyRequest to that target is answered 503 and that step sends no
\* outbound call.
C1_OpenBreakerRejects ==
    [][\A name \in Services :
          (ProxyRequest(name) /\ OpenAt(circuitBreakers, name, now))
             => /\ response' = Rejection(name)
                /\ \A s \in Services : ~OutboundCall(s)]_vars

\* three failures opened the breaker of a registered target and the next
\* request, inside the window, was answered 503 with nothing in flight
C1_Witness ==
    \E name \in Services :
        /\ name \in DOMAIN registry
        /\ OpenAt(circuitBreakers, name, now)
        /\ circuitBreakers[name].failures = FailureThreshold
        /\ response = Rejection(name)
        /\ inFlight = EmptyBag

\* C2: the recordFailure that brings the counter of consecutive failures to
\* the threshold (or beyond) leaves isCircuitOpen returning true, from that
\* instant for as long as the window lasts.
C2_ThresholdOpens ==
    [][\A name \in Services :
          (/\ Failures(circuitBreakers', name) >= FailureThreshold
           /\ FailureRecorded(name))
             => \A t \in Times :
                   (t >= now /\ t - now <= OpenDuration)
                      => IsCircuitOpen(circuitBreakers', name, t)]_vars

\* the third failure in a row has just been recorded
C2_Witness ==
    \E name \in Services :
        /\ name \in DOMAIN circuitBreakers
        /\ circuitBreakers[name].failures = FailureThreshold
        /\ circuitBreakers[name].lastFailure = now
        /\ IsCircuitOpen(circuitBreakers, name, now)
        /\ response.target = name
        /\ response.message = "unavailable"

\* C3 as stated: with the breaker open since T (its timestamp), a call is
\* rejected exactly when it is made before T + openDuration.
C3_Original ==
    [][\A name \in Services :
          (/\ ProxyRequest(name)
           /\ name \in DOMAIN circuitBreakers
           /\ circuitBreakers[name].isOpen)
             => (RejectedStep(name)
                   <=> now < circuitBreakers[name].lastFailure + OpenDuration)]_vars

\* C3 amended: with the breaker open and its timestamp T, a call is rejected
\* exactly when it is made at or before T + openDuration; the first call
\* made later than that is let through.
C3_WindowBoundary ==
    [][\A name \in Services :
          (/\ ProxyRequest(name)
           /\ name \in DOMAIN circuitBreakers
           /\ circuitBreakers[name].isOpen)
             => (RejectedStep(name)
                   <=> now <= circuitBreakers[name].lastFailure + OpenDuration)]_vars

\* a call was rejected and, after the window, the next one is in flight
C3_Witness ==
    \E name \in DOMAIN circuitBreakers :
        /\ TrialInFlight(name)
        /\ now > circuitBreakers[name].lastFailure + OpenDuration
        /\ response = Rejection(name)

\* C4: one resetCircuitBreaker(target) leaves the counter at 0 and the
\* breaker closed, whatever the record was before.
C4_SuccessResets ==
    [][\A name \in Services :
          SuccessRecorded(name)
             => /\ Failures(circuitBreakers', name) = 0
                /\ name \in DOMAIN circuitBreakers'
                      => ~circuitBreakers'[name].isOpen
                /\ \A t \in Times : ~IsCircuitOpen(circuitBreakers', name, t)]_vars

\* a success was recorded on a target that had failures on record
C4_Witness ==
    \E name \in Services :
        /\ name \in DOMAIN circuitBreakers
        /\ circuitBreakers[name].failures = 0
        /\ ~circuitBreakers[name].isOpen
        /\ response.target = name
        /\ response.status \in SuccessStatuses

\* C5: an open breaker has at least failureThreshold failures on record.
C5_OpenImpliesThreshold ==
    \A name \in DOMAIN circuitBreakers :
        circuitBreakers[name].isOpen
           => circuitBreakers[name].failures >= FailureThreshold

\* an open breaker that went on counting past the threshold
C5_Witness ==
    \E name \in DOMAIN circuitBreakers :
        /\ circuitBreakers[name].isOpen
        /\ circuitBreakers[name].failures > FailureThreshold

\* C6: the call that found the breaker half-open closes it with the counter
\* at 0 when it succeeds, and when it fails re-opens it with the timestamp
\* set to the failure time, so that calls are rejected for a full window.
\* (Fails: a success recorded while the trial is in flight resets the
\* counter, and the trial's failure then only counts 1.)
C6_TrialOutcome ==
    [][\A call \in BagToSet(inFlight), outcome \in Outcomes :
          (/\ call.trial
           /\ inFlight' # inFlight
           /\ ProxyResponse(call, outcome, response'.status))
             => LET name == call.target IN
                IF outcome = "ok"
                THEN /\ circuitBreakers'[name].failures = 0
                     /\ ~circuitBreakers'[name].isOpen
                ELSE /\ circuitBreakers'[name].isOpen
                     /\ circuitBreakers'[name].lastFailure = now
                     /\ \A t \in Times :
                           (t >= now /\ t - now <= OpenDuration)
                              => IsCircuitOpen(circuitBreakers', name, t)]_vars

\* C7: while the trial call of a target is in flight, no other request to
\* that target is sent downstream.
C7_SingleTrial ==
    [][\A name \in Services :
          TrialInFlight(name) => ~OutboundCall(name)]_vars

\* C8 as stated: an isCircuitOpen that lets the call through leaves the
\* breaker table as it was.
C8_Original ==
    [][\A name \in Services :
          (ProxyRequest(name) /\ OutboundCall(name))
             => circuitBreakers' = circuitBreakers]_vars

\* C8 amended: an isCircuitOpen that lets the call through creates no record
\* and changes no counter and no timestamp; the only change it can make is
\* to clear isOpen of its own target, when that breaker was open and its
\* window has elapsed.
C8_AllowFrame ==
    [][\A name \in Services :
          (ProxyRequest(name) /\ OutboundCall(name))
             => /\ DOMAIN circuitBreakers' = DOMAIN circuitBreakers
                /\ \A s \in DOMAIN circuitBreakers :
                      /\ circuitBreakers'[s].failures = circuitBreakers[s].failures
                      /\ circuitBreakers'[s].lastFailure
                            = circuitBreakers[s].lastFailure
                      /\ circuitBreakers'[s].isOpen # circuitBreakers[s].isOpen
                            => /\ s = name
                               /\ circuitBreakers[s].isOpen
                               /\ now - circuitBreakers[s].lastFailure > OpenDuration]_vars

\* a call was let through half-open: flag cleared, counter still on record
C8_Witness ==
    \E name \in DOMAIN circuitBreakers :
        /\ TrialInFlight(name)
        /\ ~circuitBreakers[name].isOpen
        /\ circuitBreakers[name].failures >= FailureThreshold

\* C9: a step that handles a request to one target leaves the record of
\* every other target as it was, and a request is rejected only when the
\* breaker of its own target is open.
C9_Bulkhead ==
    [][/\ \A name \in Services :
            (response'.target = name /\ ProxyRequest(name))
               => /\ \A s \in Services \ {name} :
                        RecordOf(circuitBreakers', s) = RecordOf(circuitBreakers, s)
                  /\ RejectedStep(name) => OpenAt(circuitBreakers, name, now)
       /\ \A call \in BagToSet(inFlight), outcome \in Outcomes :
            (inFlight' # inFlight
               /\ ProxyResponse(call, outcome, response'.status))
               => \A s \in Services \ {call.target} :
                     RecordOf(circuitBreakers', s) = RecordOf(circuitBreakers, s)]_vars

\* one target is open, and a call to the other target was answered by its
\* downstream after that, with its own failure recorded
C9_Witness ==
    \E a, b \in DOMAIN circuitBreakers :
        /\ a # b
        /\ OpenAt(circuitBreakers, a, now)
        /\ circuitBreakers[b].lastFailure > circuitBreakers[a].lastFailure
        /\ circuitBreakers[b].failures = 1
        /\ response.target = b
        /\ response.message = "downstream"
        /\ response.status \in ErrorStatuses

\* C10: every failure of a request, whatever else is in flight, adds exactly
\* one to the counter of its target, and a counter at or above the threshold
\* after a failure means the breaker is open.
C10_NoLostFailure ==
    [][\A name \in Services :
          FailureRecorded(name)
             => /\ Failures(circuitBreakers', name)
                      = Failures(circuitBreakers, name) + 1
                /\ Failures(circuitBreakers', name) >= FailureThreshold
                      => circuitBreakers'[name].isOpen]_vars

\* more failures than the threshold before any window could elapse: calls
\* that were in flight together have all been counted
C10_Witness ==
    \E name \in DOMAIN circuitBreakers :
        /\ circuitBreakers[name].failures > FailureThreshold
        /\ circuitBreakers[name].isOpen
        /\ now <= OpenDuration
        /\ name \in DOMAIN registry

\* C11: a proxyRequest whose target is not in the registry (discover throws)
\* is answered with the status of an open-breaker rejection, 503, for the
\* same named service, and that step sends no outbound call.
C11_UnregisteredIsUnavailable ==
    [][\A name \in Services :
          (/\ ~IsCircuitOpen(circuitBreakers, name, now)
           /\ DiscoverThrows(registry, name)
           /\ ProxyRequest(name))
             => /\ response'.status = Rejection(name).status
                /\ response'.target = Rejection(name).target
                /\ \A s \in Services : ~OutboundCall(s)]_vars

\* a request to a target that never registered has been answered
C11_Witness ==
    /\ response.target \in Services
    /\ response.target \notin DOMAIN registry
    /\ response.status = ServiceUnavailable
    /\ response.message = "unavailable"

\* C12: when the awaited call of a proxyRequest ends in a non-2xx response or
\* in no response at all, the failure counter of the target goes up by
\* exactly one and no other record changes; the caller gets the downstream's
\* status and message when there was a response, and 503 with the gateway's
\* own message otherwise.
C12_FailureSurfaced ==
    [][inFlight' # inFlight =>
         \A call \in BagToSet(inFlight) :
            /\ \A code \in ErrorStatuses :
                  ProxyResponse(call, "http_error", code)
                     => /\ Failures(circuitBreakers', call.target)
                              = Failures(circuitBreakers, call.target) + 1
                        /\ \A s \in Services \ {call.target} :
                              RecordOf(circuitBreakers', s) = RecordOf(circuitBreakers, s)
                        /\ response' = [target |-> call.target, status |-> code,
                                        message |-> "downstream"]
            /\ ProxyResponse(call, "transport_error", ServiceUnavailable)
                  => /\ Failures(circuitBreakers', call.target)
                           = Failures(circuitBreakers, call.target) + 1
                     /\ \A s \in Services \ {call.target} :
                           RecordOf(circuitBreakers', s) = RecordOf(circuitBreakers, s)
                     /\ response' = [target |-> call.target,
                                     status |-> ServiceUnavailable,
                                     message |-> "unavailable"]]_vars

\* a downstream error status has been passed on and counted
C12_Witness ==
    /\ response.target \in Services
    /\ response.status = 401
    /\ response.message = "downstream"
    /\ Failures(circuitBreakers, response.target) = 2

\* C13: when the awaited call of a proxyRequest returns 2xx, the breaker of
\* the target is reset (counter 0, closed) and the caller gets the
\* downstream's status and body.
C13_SuccessPassthrough ==
    [][inFlight' # inFlight =>
         \A call \in BagToSet(inFlight), code \in SuccessStatuses :
            ProxyResponse(call, "ok", code)
               => /\ Failures(circuitBreakers', call.target) = 0
                  /\ ~OpenAt(circuitBreakers', call.target, now)
                  /\ response' = [target |-> call.target, status |-> code,
                                  message |-> "downstream"]]_vars

\* a 201 of a target with recorded failures has been passed on
C13_Witness ==
    /\ response.target \in DOMAIN circuitBreakers
    /\ response.status = 201
    /\ response.message = "downstream"
    /\ circuitBreakers[response.target].failures = 0

\* C14: a proxyRequest sends at most one outbound call: the segment up to
\* the await sends at most one, and the segment after it sends none and
\* stops awaiting, whatever the outcome.
C14_NoRetry ==
    [][(now' = now /\ registry' = registry) =>
         /\ BagCardinality(inFlight') <= BagCardinality(inFlight) + 1
         /\ BagCardinality(inFlight') <= BagCardinality(inFlight)
               => \A call \in BagToSet(inFlight), outcome \in Outcomes :
                     ProxyResponse(call, outcome, response'.status)
                        => /\ \A s \in Services : ~OutboundCall(s)
                           /\ BagCardinality(inFlight')
                                 = BagCardinality(inFlight) - 1]_vars

\* a call to a registered target got no response, was answered, and nothing
\* is in flight
C14_Witness ==
    /\ response.target \in DOMAIN registry
    /\ response.message = "unavailable"
    /\ inFlight = EmptyBag

\* C15: getDashboard sends its list-service and item-service calls together
\* and answers only when both are settled; the answer is 200 and each section
\* is the data of its own call when that call returned 2xx and the empty
\* list when it failed (error status, no response, target not registered),
\* whatever became of the other call.
C15_DashboardDegrades ==
    [][/\ \A authHeader \in Headers \ {"none"} :
             GetDashboard(authHeader) =>
                IF \A s \in Services : DiscoverThrows(registry, s)
                THEN aggResponse' = [endpoint |-> "dashboard", status |-> 200,
                                     lists |-> "[]", items |-> "[]"]
                ELSE /\ aggResponse' = aggResponse
                     /\ aggregate'.lists.state =
                          IF DiscoverThrows(registry, "list-service")
                          THEN "rejected" ELSE "pending"
                     /\ aggregate'.items.state =
                          IF DiscoverThrows(registry, "item-service")
                          THEN "rejected" ELSE "pending"
       /\ \A name \in Services, outcome \in Outcomes, data \in Data :
             (aggregate.endpoint = "dashboard"
                 /\ CallServiceSettles(name, outcome, data)) =>
                LET other  == IF name = "list-service"
                              THEN aggregate.items ELSE aggregate.lists
                    mine   == IF outcome = "ok" THEN data ELSE "[]"
                    theirs == IF other.state = "fulfilled"
                              THEN other.data ELSE "[]"
                IN  IF other.state = "pending"
                    THEN /\ aggResponse' = aggResponse
                         /\ aggregate'.endpoint = "dashboard"
                    ELSE aggResponse' =
                           [endpoint |-> "dashboard", status |-> 200,
                            lists |-> IF name = "list-service"
                                      THEN mine ELSE theirs,
                            items |-> IF name = "item-service"
                                      THEN mine ELSE theirs]]_vars

\* the lists call returned data, the items call was sent and failed, and the
\* dashboard was answered
C15_Witness ==
    /\ aggregate = NoAggregate
    /\ "item-service" \in DOMAIN registry
    /\ aggResponse = [endpoint |-> "dashboard", status |-> 200,
                      lists |-> "d2", items |-> "[]"]

\* C16: no aggregate endpoint answers a well-formed request with an error
\* status because a constituent service is down or not registered (500 is
\* the only status the aggregate endpoints give to a failed sub-call).
C16_NoWholesaleFailure ==
    aggResponse.status # 500

\* C17: while the breaker of a target is open and its window has not
\* elapsed, no getDashboard or globalSearch step sends a call to that target.
C17_AggregateBehindBreaker ==
    [][\A name \in Services :
          OpenAt(circuitBreakers, name, now) =>
             LET slot(agg) == IF name = "list-service"
                              THEN agg.lists ELSE agg.items
             IN  ~(slot(aggregate).state # "pending"
                      /\ slot(aggregate').state = "pending")]_vars

\* C18: the Authorization header of the caller goes out with the dashboard's
\* list-service call and with no other sub-call: the item-service call of
\* the dashboard and the call of the search carry no Authorization header.
C18_CredentialOnlyToLists ==
    /\ aggregate.items.auth \in {"unsent", "none"}
    /\ aggregate.endpoint = "dashboard" =>
          aggregate.lists.auth \in {"unsent", aggregate.authHeader}
    /\ aggregate.endpoint = "search" => aggregate.lists.auth = "unsent"

\* a dashboard request with a credential has both of its calls out
C18_Witness ==
    /\ aggregate.endpoint = "dashboard"
    /\ aggregate.authHeader = "Bearer b"
    /\ aggregate.lists.auth = "Bearer b"
    /\ aggregate.lists.state = "pending"
    /\ aggregate.items.auth = "none"
    /\ aggregate.items.state = "pending"

\* C19: every proxyRequest that is awaiting its outbound call is eventually
\* answered, whether or not the downstream answers.
C19_CallBounded ==
    \A call \in Calls : BagIn(call, inFlight) ~> ~BagIn(call, inFlight)

\* C20: once FailureThreshold validations in a row of a service have failed
\* for want of an answer from user-service, the authMiddleware of that
\* service sends no further validation call.
C20_ValidationBehindBreaker ==
    [][\A service \in Services :
          authFailures[service] >= FailureThreshold
             => ~(~validating[service] /\ validating'[service])]_vars

\* the last instant the clock shows
Horizon == CHOOSE t \in Times : \A u \in Times : u <= t

\* the breaker of name is open and its window ends before the last instant
OpenWithin(cb, name) ==
    IF name \in DOMAIN cb
    THEN cb[name].isOpen /\ cb[name].lastFailure + OpenDuration < Horizon
    ELSE FALSE

\* C21: with the clock running, requests arriving and calls answered, an
\* open breaker whose window ends before the clock's last instant does not
\* stay open: a later isCircuitOpen lets a call through as the trial (or a
\* failure of a call still in flight moves the window past the last
\* instant); and a trial that returns 2xx leaves the breaker closed with its
\* counter at 0.
C21_EventualTrial ==
    /\ OpenWithin(circuitBreakers, RecoveryTarget)
          ~> ~OpenWithin(circuitBreakers, RecoveryTarget)
    /\ [][inFlight' # inFlight =>
            (ProxyResponse([target |-> RecoveryTarget, trial |-> TRUE], "ok",
                           response'.status)
               => /\ ~OpenAt(circuitBreakers', RecoveryTarget, now)
                  /\ Failures(circuitBreakers', RecoveryTarget) = 0)]_vars

\* the breaker was opened, its window elapsed, and the call that found it
\* half-open is in flight
C21_Witness ==
    \E name \in DOMAIN circuitBreakers :
       /\ circuitBreakers[name].failures >= FailureThreshold
       /\ ~circuitBreakers[name].isOpen
       /\ now - circuitBreakers[name].lastFailure > OpenDuration
       /\ TrialInFlight(name)

\* C22: right after register(name, url), discover(name) returns a record
\* with that url, also when the name was registered with another url before.
C22_RegisterThenDiscover ==
    [][\A name \in RegistryNames, url \in Urls :
          RegisterAt(name, url)
             => RegistryDiscover(registry', name).url = url]_vars

\* a name has been registered a second time, with another url
C22_Witness ==
    /\ "item-service" \in DOMAIN registry
    /\ registry["item-service"].status = "unknown"
    /\ registry["item-service"].url = 3001
    /\ "list-service" \in DOMAIN registry
    /\ registry["list-service"].status = "healthy"

\* C23: discover of a name that was never registered throws NotRegistered,
\* whatever registry calls were made for other names (and whatever
\* heartbeats and probes were made); it never returns a record.
C23_UnregisteredThrows ==
    [][\A name \in RegistryNames :
          (/\ name \notin DOMAIN registry
           /\ \A url \in Urls : ~RegisterAt(name, url))
             => RegistryDiscover(registry', name) = NotRegistered]_vars

\* two names registered and probed, the third never registered
C23_Witness ==
    /\ DOMAIN registry = {"item-service", "list-service"}
    /\ registry["item-service"].status = "unhealthy"
    /\ registry["list-service"].status = "healthy"
    /\ RegistryDiscover(registry, "user-service") = NotRegistered

\* C24: updateHealth(name, healthy) of a name that is not registered leaves
\* the registry as it was: no record is created.
C24_UnknownHeartbeatNoOp ==
    [][\A name \in RegistryNames, healthy \in BOOLEAN :
          (name \notin DOMAIN registry /\ UpdateHealth(name, healthy))
             => registry' = registry]_vars

\* a heartbeat was taken for a known name while another name is unknown
C24_Witness ==
    /\ DOMAIN registry = {"list-service"}
    /\ registry["list-service"].status = "healthy"

\* C25: heartbeats and health probes keep every record and its url and only
\* set its status: healthy after a success, unhealthy after a failure; a
\* registered name stays discoverable whatever its status.
C25_HealthOnlyFlipsStatus ==
    [][/\ \A name \in RegistryNames, healthy \in BOOLEAN :
             (name \in DOMAIN registry /\ UpdateHealth(name, healthy))
                => /\ DOMAIN registry' = DOMAIN registry
                   /\ \A n \in DOMAIN registry :
                         /\ registry'[n].url = registry[n].url
                         /\ n # name => registry'[n] = registry[n]
                   /\ RegistryDiscover(registry', name).status
                         = IF healthy THEN "healthy" ELSE "unhealthy"
       /\ \A healthy \in SUBSET RegistryNames :
             PerformHealthChecks(healthy)
                => /\ DOMAIN registry' = DOMAIN registry
                   /\ \A n \in DOMAIN registry :
                         /\ registry'[n].url = registry[n].url
                         /\ RegistryDiscover(registry', n).status
                               = IF n \in healthy THEN "healthy"
                                 ELSE "unhealthy"]_vars

\* a record that was healthy is unhealthy and still there
C25_Witness ==
    /\ "item-service" \in DOMAIN registry
    /\ RegistryDiscover(registry, "item-service")
          = [url |-> 3003, status |-> "unhealthy"]
    /\ "list-service" \in DOMAIN registry
    /\ registry["list-service"].status = "healthy"

\* C26: a breaker record comes into being only by a recorded failure of its
\* target (it starts with counter 1 and the timestamp of that failure):
\* neither isCircuitOpen nor resetCircuitBreaker creates one, and a
\* proxyRequest to a target without a record is never rejected by line 47.
C26_LazyRecord ==
    [][\A name \in Services :
          name \notin DOMAIN circuitBreakers
             => /\ name \in DOMAIN circuitBreakers'
                   => circuitBreakers'[name] =
                         [failures |-> 1, isOpen |-> FALSE, lastFailure |-> now]
                /\ ~RejectedStep(name)]_vars

\* a call to a target without a record returned 2xx and the target still
\* has no record, while another target has one
C26_Witness ==
    /\ response.target \in Services \ DOMAIN circuitBreakers
    /\ response.status \in SuccessStatuses
    /\ DOMAIN circuitBreakers # {}

\* C27: /api/dashboard without an Authorization header is answered 401 and
\* /api/search without q is answered 400; neither step sends a call or
\* changes the breaker table.
C27_ValidationFirst ==
    [][/\ GetDashboard("none")
             => /\ aggResponse'.status = 401
                /\ aggResponse'.endpoint = "dashboard"
                /\ aggregate' = NoAggregate
                /\ UNCHANGED <<circuitBreakers, inFlight>>
       /\ GlobalSearch("")
             => /\ aggResponse'.status = 400
                /\ aggResponse'.endpoint = "search"
                /\ aggregate' = NoAggregate
                /\ UNCHANGED <<circuitBreakers, inFlight>>]_vars

\* a search without q was answered 400 while item-service could be called
C27_Witness ==
    /\ "item-service" \in DOMAIN registry
    /\ aggregate = NoAggregate
    /\ aggResponse.endpoint = "search"
    /\ aggResponse.status = 400

\* C28: a proxyRequest whose discover throws adds one to the failure counter
\* of its target and stamps it; the one that brings the counter to the
\* threshold opens the breaker, and from then on requests to that target are
\* rejected until the window elapses, whether or not it has registered.
C28_DiscoveryMissCounts ==
    [][\A name \in Services :
          /\ (/\ inFlight' = inFlight
              /\ ~IsCircuitOpen(circuitBreakers, name, now)
              /\ DiscoverThrows(registry, name)
              /\ ProxyRequest(name))
                => /\ Failures(circuitBreakers', name)
                         = Failures(circuitBreakers, name) + 1
                   /\ circuitBreakers'[name].lastFailure = now
                   /\ Failures(circuitBreakers', name) >= FailureThreshold
                         => OpenAt(circuitBreakers', name, now)
          /\ (/\ OpenAt(circuitBreakers, name, now)
              /\ name \in DOMAIN registry
              /\ ProxyRequest(name))
                => RejectedStep(name)]_vars

\* three requests to an unregistered target opened its breaker; it has
\* registered since and a request to it has been rejected
C28_Witness ==
    \E name \in DOMAIN registry \cap DOMAIN circuitBreakers :
       /\ circuitBreakers[name] =
             [failures |-> FailureThreshold, isOpen |-> TRUE, lastFailure |-> 0]
       /\ now = OpenDuration
       /\ response = Rejection(name)
       /\ inFlight = EmptyBag

\* C29: a proxyRequest answered by line 47 leaves the breaker table as it
\* was: counter, flag and timestamp of the target included.
C29_RejectionFrame ==
    [][\A name \in Services :
          RejectedStep(name) => circuitBreakers' = circuitBreakers]_vars

\* a request was rejected later than the failure that opened the breaker
C29_Witness ==
    \E name \in DOMAIN circuitBreakers :
       /\ response = Rejection(name)
       /\ circuitBreakers[name].isOpen
       /\ circuitBreakers[name].lastFailure < now
       /\ now - circuitBreakers[name].lastFailure <= OpenDuration

\* C30: while the breaker of a target is open and its window has not
\* elapsed, no step clears its flag.
C30_ClosesOnlyViaTrial ==
    [][\A name \in Services :
          (OpenAt(circuitBreakers, name, now) /\ now' = now)
             => circuitBreakers'[name].isOpen]_vars

\* C31: a protected handler of list-service or item-service runs only after
\* user-service has validated the bearer token of that same request: a
\* request without a 'Bearer ' Authorization header is answered 401 without
\* a call to user-service, a token user-service rejects is answered 401, an
\* unregistered or unreachable user-service is answered 503, and in none of
\* these cases does the middleware call next().
C31_ValidatedBeforeHandler ==
    [][\A service \in Services :
          /\ \A header \in AuthHeaders :
                AuthMiddleware(service, header) /\ ~StartsWithBearer(header)
                   => /\ authResponse' = [service |-> service, status |-> 401,
                                          next |-> FALSE]
                      /\ validating' = validating
          /\ \A header \in AuthHeaders :
                (/\ AuthMiddleware(service, header)
                 /\ StartsWithBearer(header)
                 /\ DiscoverThrows(registry, "user-service"))
                   => authResponse' = [service |-> service,
                                       status |-> ServiceUnavailable,
                                       next |-> FALSE]
          /\ ValidateSettles(service, AxiosOutcome(NoAnswer))
                => authResponse' = [service |-> service,
                                    status |-> ServiceUnavailable,
                                    next |-> FALSE]
          /\ \A verdict \in TokenVerdicts \ {"good"} :
                ValidateSettles(service, AxiosOutcome(ValidateToken(verdict)))
                   => authResponse' = [service |-> service, status |-> 401,
                                       next |-> FALSE]
          /\ (authResponse'.next /\ authResponse' # authResponse)
                => ValidateSettles(service,
                                   AxiosOutcome(ValidateToken("good")))
                      \/ authResponse'.service # service]_vars

\* this step is the first segment of a list-service request of user that
\* names the list id: it writes no list, and it answers user or suspends
RequestOn(user, id) ==
    /\ lists' = lists
    /\ handlers' # handlers \/ listResponse'.user = user
    /\ \/ GetListById(user, id)
       \/ GetListSummary(user, id)
       \/ \E name \in Names : UpdateList(user, id, name)
       \/ DeleteList(user, id)
       \/ \E itemId \in ItemIds \cup {"none"} :
             AddItemToList(user, id, itemId)
       \/ \E itemId \in ItemIds, purchased \in BOOLEAN :
             UpdateItemInList(user, id, itemId, purchased)
       \/ \E itemId \in ItemIds : RemoveItemFromList(user, id, itemId)

\* this step is the write of a suspended handler of user on the list id
WriteBy(user, id) ==
    \E h \in BagToSet(handlers) :
       /\ h.id = id
       /\ h.user = user
       /\ handlers' = handlers (-) SetToBag({h})

\* C32: list ownership isolation. No step changes the userId of a stored
\* list; a stored list is changed or deleted only by the write of a handler
\* that runs for the list's userId; a response carries the content of lists
\* of its requester only; and a request that names a list of another user is
\* answered 403 or 404, suspends no handler and leaves every list unchanged.
C32_OwnershipIsolation ==
    [][/\ \A id \in DOMAIN lists :
             /\ id \in DOMAIN lists' => lists'[id].userId = lists[id].userId
             /\ (id \notin DOMAIN lists' \/ lists'[id] # lists[id])
                   => WriteBy(lists[id].userId, id)
       /\ listResponse' # listResponse
             => \A id \in listResponse'.data :
                   /\ id \in DOMAIN lists'
                   /\ lists'[id].userId = listResponse'.user
       /\ \A id \in DOMAIN lists : \A user \in UserIds \ {lists[id].userId} :
             RequestOn(user, id)
                => /\ listResponse'.status \in {403, 404}
                   /\ listResponse'.user = user
                   /\ listResponse'.data = {}
                   /\ lists' = lists
                   /\ handlers' = handlers]_vars

\* a list whose owner has put an item on it is stored, and the request of
\* another user for that list has just been answered 403
C32_Witness ==
    \E id \in DOMAIN lists :
       /\ lists[id].items # << >>
       /\ listResponse.user \in UserIds \ {lists[id].userId}
       /\ listResponse.status = 403

\* the itemIds on the stored list id
StoredItemIds(id) ==
    {lists[id].items[k].itemId : k \in 1..Len(lists[id].items)}

\* C33: under every interleaving of addItemToList, updateItemInList and
\* removeItemFromList requests, a stored list holds every item whose
\* addition was acknowledged and whose removal was not acknowledged since,
\* and its stored summary is the summary of its stored items.
C33_AckedItemsStored ==
    \A id \in DOMAIN lists :
       /\ ackedItems[id] \subseteq StoredItemIds(id)
       /\ lists[id].summary = CalculateSummary(lists[id].items)


\* no two stored users share an email or a username
UniqueUsers(db) ==
    \A i, j \in 1..Len(db) :
       i # j => /\ db[i].email # db[j].email
                /\ db[i].username # db[j].username

\* C34: under every interleaving of register requests, no two stored users
\* share an email or a username, and a register request whose email or
\* username is already in use is answered 409 and creates no user.
C34_UniqueUsers ==
    [][/\ UniqueUsers(users')
       /\ \A email \in Emails \ {""}, username \in Usernames :
             RegisterUser(email, username)
                /\ DbFindOne(users, email, username)
                => userResponse'.status = 409 /\ users' = users]_vars
====
